---- MODULE Spec2Model ----
(***************************************************************************)
(* SaveInterestingFilesModule.cpp: a report module that copies the files   *)
(* and directories recorded as interesting-file hits on the blackboard to  *)
(* <output folder>/<set name>/ and writes one XML report per file set.     *)
(*                                                                         *)
(* Strings are sequences of one-character strings, so that the string      *)
(* operations of the module (rfind, insert, append, <<) are computed, not  *)
(* assumed.  Every call that touches the file system (createDirectory,     *)
(* copyFile, opening the report file) is one step that either succeeds or  *)
(* throws; the code between two such calls belongs to the step before it.  *)
(***************************************************************************)
EXTENDS Integers, Sequences, FiniteSets, TLC

VARIABLES
    lastArguments,     \* the arguments parameter of the last initialize() call
    outputFolderPath,  \* the cached output folder (file-scope std::string)
    blackboard,        \* the TSK_INTERESTING_FILE_HIT artifacts, in getArtifacts order
    store,             \* the image database: kind, name and parent of every file id
    pc,                \* where the module is
    returnCode,        \* report()'s returnCode
    fileSets,          \* report()'s std::map set name -> description
    fileSetHits,       \* report()'s std::multimap set name -> artifact
    fileSet,           \* position of report()'s fileSet iterator in the sorted keys
    fileHit,           \* position of saveFiles()'s fileHit iterator in the range
    report,            \* saveFiles()'s XML document, one per call: set name -> document
    stack,             \* the activations of saveDirectoryContents
    dirs,              \* directories created on disk
    files,             \* file copies written to disk: [path, id]
    reports,           \* report files written to disk: [path, doc]
    log,               \* the file-system calls made so far, in order, each with
                       \* the number of elements of the document before and after
    failures           \* number of file-system calls that have failed

vars == <<lastArguments, outputFolderPath, blackboard, store, pc, returnCode, fileSets,
          fileSetHits, fileSet, fileHit, report, stack, dirs, files, reports,
          log, failures>>

-----------------------------------------------------------------------------
(* Bounds of the model. *)

MaxHits == 2        \* artifacts on the blackboard
MaxFailures == 2    \* file-system calls that fail in one run
MaxDepth == 4       \* activations of saveDirectoryContents on the stack

-----------------------------------------------------------------------------
(* Strings. *)

Sep == <<"/">>      \* Poco::Path::separator()

\* The characters that occur, in the order of their char values.
CharOrder == <<".", "/", "0", "1", "2", "3", "4", "5", "6", "7", "8", "9",
               "A", "B", "_", "a", "b", "l", "m", "o", "p", "t", "x">>

CharRank(c) == CHOOSE i \in 1..Len(CharOrder) : CharOrder[i] = c

\* std::string operator< : lexicographic on the characters.
StrLess(a, b) ==
    \E i \in 1..(Len(a) + 1) :
        /\ i <= Len(b)
        /\ \A j \in 1..(i - 1) : a[j] = b[j]
        /\ \/ i = Len(a) + 1
           \/ CharRank(a[i]) < CharRank(b[i])

DigitChar(d) == CharOrder[d + 3]

\* operator<< of an unsigned integer: its decimal digits.
RECURSIVE Digits(_)
Digits(n) == IF n < 10 THEN <<DigitChar(n)>>
             ELSE Digits(n \div 10) \o <<DigitChar(n % 10)>>

\* std::string::rfind(".") as a 1-based position, 0 for npos.
RFindDot(s) ==
    IF \E i \in 1..Len(s) : s[i] = "."
    THEN CHOOSE i \in 1..Len(s) : s[i] = "." /\ \A j \in (i + 1)..Len(s) : s[j] # "."
    ELSE 0

-----------------------------------------------------------------------------
(* The external collaborators: image database and blackboard. *)

FileIds == 1..3

\* The names of the files: two files of the same name, one with an extension.
FileNames == <<<<"a">>, <<"a">>, <<"b", ".", "t">>>>

\* The files the artifacts of the blackboard refer to; they are the files
\* that can be directories, file 3 is a regular file.
HitFileIds == {1, 2}

FileStores == [kind : {k \in [FileIds -> {"DIR", "REG"}] :
                          \A id \in FileIds \ HitFileIds : k[id] = "REG"},
               name : {[id \in FileIds |-> FileNames[id]]},
               parent : [FileIds -> {0} \cup FileIds]]

\* TskFile::getMetaType(), getName(), getUniquePath(), getHash(MD5).
getMetaType(s, id) == s.kind[id]
getName(s, id) == s.name[id]
getUniquePath(s, id) == <<"i", "/">> \o Digits(id)
getHash(s, id) == <<>>

\* The ids on the path from id to its root; a forest has no id above itself.
RECURSIVE Above(_, _, _)
Above(s, id, n) ==
    IF n = 0 \/ s.parent[id] = 0 THEN {}
    ELSE {s.parent[id]} \cup Above(s, s.parent[id], n - 1)

IsForest(s) == \A id \in FileIds : id \notin Above(s, id, Cardinality(FileIds))

\* Ascending sequence of a finite set of numbers.
RECURSIVE Ascending(_)
Ascending(S) ==
    IF S = {} THEN <<>>
    ELSE LET m == CHOOSE x \in S : \A y \in S : x <= y
         IN  <<m>> \o Ascending(S \ {m})

\* getFileRecords("WHERE par_file_id = <id>"): the file ids of the records.
getFileRecords(s, id) == Ascending({c \in FileIds : s.parent[c] = id})

SetA == <<"A">>
SetB == <<"B">>

NameA == [type |-> "TSK_SET_NAME", value |-> SetA, context |-> <<"a">>]
NameA2 == [type |-> "TSK_SET_NAME", value |-> SetA, context |-> <<"x">>]
NameB == [type |-> "TSK_SET_NAME", value |-> SetB, context |-> <<"b">>]
Other == [type |-> "TSK_DESCRIPTION", value |-> SetB, context |-> <<>>]

\* The attribute lists an artifact can carry.
AttrLists == {<<>>, <<NameA>>, <<NameB>>, <<NameA, NameB>>,
              <<Other, NameA2, NameA>>}

\* The blackboards: artifact ids are the positions, and the artifacts refer
\* to the files of HitFileIds in turn.
Blackboards ==
    UNION {{[i \in 1..n |-> [objectID |-> ((i - 1) % Cardinality(HitFileIds)) + 1,
                             attrs |-> a[i]]] : a \in [1..n -> AttrLists]} :
           n \in 0..MaxHits}

\* The file ids an export of the blackboard's hits can reach.
RECURSIVE Below(_, _, _)
Below(s, S, n) ==
    IF n = 0 THEN S
    ELSE Below(s, S \cup {c \in FileIds : s.parent[c] \in S /\ s.kind[s.parent[c]] = "DIR"}, n - 1)

HitObjects(b) ==
    {b[i].objectID : i \in {j \in 1..Len(b) :
        \E k \in 1..Len(b[j].attrs) : b[j].attrs[k].type = "TSK_SET_NAME"}}

Reachable(s, b) == Below(s, HitObjects(b), Cardinality(FileIds))

\* One store per behaviour of the export: what no export reads is fixed.
Relevant(s, b) ==
    \A id \in FileIds :
        /\ id \notin Reachable(s, b) =>
              s.kind[id] = "REG" /\ s.parent[id] = 0
        /\ s.parent[id] # 0 =>
              s.parent[id] \in Reachable(s, b) /\ s.kind[s.parent[id]] = "DIR"

-----------------------------------------------------------------------------
(* The helpers of the anonymous namespace. *)

\* Mutant: only npos is tested, the id is put before a first-character '.'.
SavedFileName_AtFirst(fileName, id) ==
    LET idStr == <<"_">> \o Digits(id)
        pos == RFindDot(fileName)
    IN  IF pos # 0
        THEN SubSeq(fileName, 1, pos - 1) \o idStr \o SubSeq(fileName, pos, Len(fileName))
        ELSE fileName \o idStr

\* saveInterestingFile, lines 167-181: the file name with the id put in.
SavedFileName(fileName, id) ==
    LET idStr == <<"_">> \o Digits(id)
        pos == RFindDot(fileName)
    IN  IF pos # 0 /\ pos # 1
        THEN SubSeq(fileName, 1, pos - 1) \o idStr \o SubSeq(fileName, pos, Len(fileName))
        ELSE fileName \o idStr

\* saveInterestingFile, lines 182-183.
SavedFilePath(fileSetFolderPath, fileName, id) ==
    fileSetFolderPath \o Sep \o SavedFileName(fileName, id)

\* saveInterestingDirectory, lines 150-151: wrapper and inner directory.
WrapperDirPath(fileSetFolderPath, dirName, id) ==
    fileSetFolderPath \o Sep \o dirName \o <<"_">> \o Digits(id)

\* Mutant: the directory is created in the set folder under its own name.
SavedDirPath_NoWrapper(fileSetFolderPath, dirName, id) ==
    fileSetFolderPath \o Sep \o dirName

SavedDirPath(fileSetFolderPath, dirName, id) ==
    WrapperDirPath(fileSetFolderPath, dirName, id) \o Sep \o dirName

\* saveDirectoryContents, lines 122 and 132.
ChildPath(dirPath, name) == dirPath \o Sep \o name

\* saveFiles, lines 202-203 and 230.
FileSetFolderPath(out, setName) == out \o Sep \o setName

ReportPath(out, setName) ==
    FileSetFolderPath(out, setName) \o Sep \o setName \o <<".", "x", "m", "l">>

\* saveFiles, lines 195-199: the new document of a set.
NewReport(setName, setDescription) ==
    [name |-> setName, description |-> setDescription, entries |-> <<>>]

\* Mutant: the saved path and the original path are exchanged.
addFileToReport_Swapped(s, file, filePath, doc) ==
    [doc EXCEPT !.entries = Append(@,
        [tag |-> IF getMetaType(s, file) = "DIR" THEN "SavedDirectory" ELSE "SavedFile",
         Path |-> getUniquePath(s, file),
         OriginalPath |-> filePath,
         hasMD5 |-> getMetaType(s, file) # "DIR",
         MD5 |-> IF getMetaType(s, file) # "DIR" THEN getHash(s, file) ELSE <<>>])]

\* addFileToReport: one SavedDirectory or SavedFile element appended.
addFileToReport(s, file, filePath, doc) ==
    [doc EXCEPT !.entries = Append(@,
        [tag |-> IF getMetaType(s, file) = "DIR" THEN "SavedDirectory" ELSE "SavedFile",
         Path |-> filePath,
         OriginalPath |-> getUniquePath(s, file),
         hasMD5 |-> getMetaType(s, file) # "DIR",
         MD5 |-> IF getMetaType(s, file) # "DIR" THEN getHash(s, file) ELSE <<>>])]

\* Mutant: a call that throws takes the elements recorded so far with it.
SaveResult_Rollback(ok, s, file, filePath, doc) ==
    IF ok THEN addFileToReport(s, file, filePath, doc)
    ELSE [doc EXCEPT !.entries = <<>>]

\* Mutant: the element is added before the call that can throw.
SaveResult_Before(ok, s, file, filePath, doc) ==
    addFileToReport(s, file, filePath, doc)

\* Lines 152-154 and 186-188 (133-134 in a directory): the element is added
\* when createDirectory or copyFile has returned, not when it has thrown.
SaveResult(ok, s, file, filePath, doc) ==
    IF ok THEN addFileToReport(s, file, filePath, doc) ELSE doc

\* report(), lines 319-346: the grouping of the artifacts.  A std::map insert
\* keeps the first description of a name; a std::multimap insert puts the
\* artifact after the equal keys already there.
MapInsert(m, k, v) == IF k \in DOMAIN m THEN m ELSE m @@ (k :> v)

\* Mutant: the artifact is put before the equal keys already there.
MultimapInsert_Front(m, k, v) ==
    IF k \in DOMAIN m THEN [m EXCEPT ![k] = <<v>> \o @] ELSE m @@ (k :> <<v>>)

MultimapInsert(m, k, v) ==
    IF k \in DOMAIN m THEN [m EXCEPT ![k] = Append(@, v)] ELSE m @@ (k :> <<v>>)

EmptyMap == [k \in {} |-> <<>>]

RECURSIVE GroupAttrs(_, _, _, _)
GroupAttrs(g, art, attrs, k) ==
    IF k > Len(attrs) THEN g
    ELSE IF attrs[k].type = "TSK_SET_NAME"
         THEN GroupAttrs([sets |-> MapInsert(g.sets, attrs[k].value, attrs[k].context),
                          hits |-> MultimapInsert(g.hits, attrs[k].value, art)],
                         art, attrs, k + 1)
         ELSE GroupAttrs(g, art, attrs, k + 1)

\* Mutant: the loop over the artifacts ends at the first artifact that has
\* no set name.
RECURSIVE GroupArtifacts_Stop(_, _, _)
GroupArtifacts_Stop(g, b, i) ==
    IF i > Len(b) THEN g
    ELSE IF \A k \in 1..Len(b[i].attrs) : b[i].attrs[k].type # "TSK_SET_NAME" THEN g
    ELSE GroupArtifacts_Stop(
            GroupAttrs(g, [artifactID |-> i, objectID |-> b[i].objectID], b[i].attrs, 1),
            b, i + 1)

RECURSIVE GroupArtifacts(_, _, _)
GroupArtifacts(g, b, i) ==
    IF i > Len(b) THEN g
    ELSE GroupArtifacts(
            GroupAttrs(g, [artifactID |-> i, objectID |-> b[i].objectID], b[i].attrs, 1),
            b, i + 1)

Group(b) == GroupArtifacts([sets |-> EmptyMap, hits |-> EmptyMap], b, 1)

\* The keys of a std::map in iteration order: ascending.
RECURSIVE SortedKeys(_)
SortedKeys(S) ==
    IF S = {} THEN <<>>
    ELSE LET m == CHOOSE x \in S : \A y \in S \ {x} : StrLess(x, y)
         IN  <<m>> \o SortedKeys(S \ {m})

SetNames == SortedKeys(DOMAIN fileSets)

\* The set report()'s iterator is at, and saveFiles' arguments for it.
setName == SetNames[fileSet]
fileSetHitsRange == fileSetHits[setName]
fileSetFolderPath == FileSetFolderPath(outputFolderPath, setName)

-----------------------------------------------------------------------------
(* Control flow of report() and saveFiles(). *)

\* Mutant: the loop ends one hit early.
NextHitPc_Early(k, range) == IF k >= Len(range) THEN "writeReport" ELSE "fileHit"

\* The loop of saveFiles (line 207) after its iterator moved to position k.
NextHitPc(k, range) == IF k > Len(range) THEN "writeReport" ELSE "fileHit"

\* Mutant: the loop ends one set early.
NextSetPc_Early(n, names) == IF n >= Len(names) THEN "returned" ELSE "saveFiles"

\* The loop of report() (line 349) after its iterator moved to position n.
NextSetPc(n, names) == IF n > Len(names) THEN "returned" ELSE "saveFiles"

\* Mutant: the handler logs the error and leaves the return code as it is set
\* at the start of report().
CatchInSaveFiles_NoFail(k, range) ==
    [pc |-> NextHitPc(k + 1, range), fileHit |-> k + 1, returnCode |-> "OK"]

\* Mutant: no handler in the loop, the exception of a hit leaves saveFiles.
CatchInSaveFiles_None(k, range) ==
    [pc |-> "returned", fileHit |-> k, returnCode |-> "FAIL"]

\* catch (TskException &) of saveFiles, lines 221-226, around hit k.
CatchInSaveFiles(k, range) ==
    [pc |-> NextHitPc(k + 1, range), fileHit |-> k + 1, returnCode |-> "FAIL"]

\* Mutant: the handler logs the error and returns OK.
CatchInReport_NoFail == [pc |-> "returned", returnCode |-> "OK"]

\* catch (TskException &) of report(), lines 358-366.
CatchInReport == [pc |-> "returned", returnCode |-> "FAIL"]

\* A Poco::Exception from line 231 matches no handler of the module (both
\* catch TskException) and leaves report() with no status returned.
UncaughtInReport(rc) == [pc |-> "threw", returnCode |-> rc]

\* saveDirectoryContents returning: finished activations are popped and the
\* loop of the caller moves to its next record.
RECURSIVE Unwind(_)
Unwind(st) ==
    IF st = <<>> THEN st
    ELSE LET top == st[Len(st)]
             rest == SubSeq(st, 1, Len(st) - 1)
         IN  IF top.fileRec <= Len(top.fileRecs) THEN st
             ELSE IF rest = <<>> THEN rest
             ELSE Unwind([rest EXCEPT ![Len(rest)].fileRec = @ + 1])

\* A call of saveDirectoryContents(dirPath, dir, report) on top of st.
Call(st, dirPath, dir) ==
    Unwind(Append(st, [dirPath |-> dirPath, dir |-> dir,
                       fileRecs |-> getFileRecords(store, dir), fileRec |-> 1]))

\* The loop of saveDirectoryContents moving on after a file was saved.
Step(st) == Unwind([st EXCEPT ![Len(st)].fileRec = @ + 1])

\* A file-system call: set is the set saveFiles runs for (<<>> outside), pos
\* and art the position and artifact id of the hit being saved (0 outside),
\* n0 and n the number of elements of the set's document before and after.
Event(op, ok, path, file, set, pos, art, n0, n) ==
    [op |-> op, ok |-> ok, path |-> path, file |-> file, set |-> set,
     pos |-> pos, art |-> art, n0 |-> n0, n |-> n]

-----------------------------------------------------------------------------
(* The module API. *)

OutDir == <<"o">>   \* what the host expands #OUT_DIR# to

\* The fixed subfolder name is kept as one element of the string.
DefaultOutputFolderPath == OutDir \o Sep \o <<"InterestingFiles">>

\* The arguments the host can pass to initialize().
Arguments == {[null |-> TRUE, str |-> <<>>], [null |-> FALSE, str |-> <<>>],
              [null |-> FALSE, str |-> <<"p">>]}

\* Before the first initialize() call there is no argument.
NoArguments == [null |-> TRUE, str |-> <<>>]

\* Mutant: the path of the call before is not cleared.
ClearedPath_Kept(path) == path

\* outputFolderPath.clear(), line 281.
ClearedPath(path) == <<>>

\* initialize(), lines 278-296.
InitializedPath(arguments) ==
    LET cleared == ClearedPath(outputFolderPath)
        assigned == IF ~arguments.null THEN arguments.str ELSE cleared
    IN  IF assigned = <<>> THEN DefaultOutputFolderPath ELSE assigned

Init ==
    /\ lastArguments = NoArguments
    /\ outputFolderPath = <<>>
    /\ blackboard \in Blackboards
    /\ store \in {s \in FileStores : IsForest(s) /\ Relevant(s, blackboard)}
    /\ pc = "loaded"
    /\ returnCode = "OK"
    /\ fileSets = EmptyMap
    /\ fileSetHits = EmptyMap
    /\ fileSet = 0
    /\ fileHit = 0
    /\ report = EmptyMap
    /\ stack = <<>>
    /\ dirs = {}
    /\ files = {}
    /\ reports = {}
    /\ log = <<>>
    /\ failures = 0

initialize ==
    /\ pc \in {"loaded", "initialized"}
    /\ \E arguments \in Arguments :
          /\ outputFolderPath' = InitializedPath(arguments)
          /\ lastArguments' = arguments
    /\ pc' = "initialized"
    /\ UNCHANGED <<blackboard, store, returnCode, fileSets, fileSetHits, fileSet,
                   fileHit, report, stack, dirs, files, reports, log, failures>>

\* report(), lines 306-356, up to the first saveFiles call.
reportCreated ==
    /\ pc = "initialized"
    /\ LET g == Group(blackboard)
       IN  /\ fileSets' = g.sets
           /\ fileSetHits' = g.hits
           /\ pc' = NextSetPc(1, SortedKeys(DOMAIN g.sets))
    /\ returnCode' = "OK"
    /\ fileSet' = 1
    /\ dirs' = dirs \cup {outputFolderPath}
    /\ log' = Append(log, Event("createDirectory", TRUE, outputFolderPath, 0, <<>>,
                                0, 0, 0, 0))
    /\ UNCHANGED <<lastArguments, outputFolderPath, blackboard,
                   store, fileHit, report, stack,
                   files, reports, failures>>

\* report(), line 313 throwing.
reportCreateFailed ==
    /\ pc = "initialized"
    /\ failures < MaxFailures
    /\ pc' = CatchInReport.pc
    /\ returnCode' = CatchInReport.returnCode
    /\ failures' = failures + 1
    /\ log' = Append(log, Event("createDirectory", FALSE, outputFolderPath, 0, <<>>,
                                0, 0, 0, 0))
    /\ UNCHANGED <<lastArguments, outputFolderPath, blackboard,
                   store, fileSets, fileSetHits,
                   fileSet, fileHit, report, stack, dirs, files, reports>>

\* saveFiles(), lines 195-204.
saveFilesCreated ==
    /\ pc = "saveFiles"
    /\ report' = (setName :> NewReport(setName, fileSets[setName])) @@ report
    /\ dirs' = dirs \cup {fileSetFolderPath}
    /\ fileHit' = 1
    /\ pc' = NextHitPc(1, fileSetHitsRange)
    /\ log' = Append(log, Event("createDirectory", TRUE, fileSetFolderPath, 0, setName,
                                0, 0, 0, 0))
    /\ UNCHANGED <<lastArguments, outputFolderPath, blackboard,
                   store, returnCode, fileSets,
                   fileSetHits, fileSet, stack, files, reports, failures>>

\* saveFiles(), line 204 throwing: no handler in saveFiles, the handler of
\* report() is outside its loop.
saveFilesCreateFailed ==
    /\ pc = "saveFiles"
    /\ failures < MaxFailures
    /\ report' = (setName :> NewReport(setName, fileSets[setName])) @@ report
    /\ pc' = CatchInReport.pc
    /\ returnCode' = CatchInReport.returnCode
    /\ failures' = failures + 1
    /\ log' = Append(log, Event("createDirectory", FALSE, fileSetFolderPath, 0, setName,
                                0, 0, 0, 0))
    /\ UNCHANGED <<lastArguments, outputFolderPath, blackboard,
                   store, fileSets, fileSetHits,
                   fileSet, fileHit, stack, dirs, files, reports>>

\* The artifact and the file of the hit saveFiles' iterator is at.
hit == fileSetHitsRange[fileHit]
hitFile == hit.objectID

\* One file-system call made for the current hit.  It returns (ok) and the
\* export goes on with the activations st, or it throws a TskException that
\* saveFiles catches.  doc is the document after the call.
HitCall(op, ok, path, file, doc, st, newDirs, newFiles) ==
    /\ log' = Append(log, Event(op, ok, path, file, setName, fileHit, hit.artifactID,
                                Len(report[setName].entries), Len(doc.entries)))
    /\ report' = [report EXCEPT ![setName] = doc]
    /\ IF ok
       THEN /\ dirs' = dirs \cup newDirs
            /\ files' = files \cup newFiles
            /\ stack' = st
            /\ IF st = <<>>
               THEN /\ fileHit' = fileHit + 1
                    /\ pc' = NextHitPc(fileHit + 1, fileSetHitsRange)
               ELSE /\ fileHit' = fileHit
                    /\ pc' = "contents"
            /\ UNCHANGED <<returnCode, failures>>
       ELSE /\ failures < MaxFailures
            /\ failures' = failures + 1
            /\ stack' = <<>>
            /\ pc' = CatchInSaveFiles(fileHit, fileSetHitsRange).pc
            /\ fileHit' = CatchInSaveFiles(fileHit, fileSetHitsRange).fileHit
            /\ returnCode' = CatchInSaveFiles(fileHit, fileSetHitsRange).returnCode
            /\ UNCHANGED <<dirs, files>>
    /\ UNCHANGED <<lastArguments, outputFolderPath, blackboard,
                   store, fileSets, fileSetHits,
                   fileSet, reports>>

\* saveInterestingFile; ok is whether copyFile (line 186) returns.
SaveInterestingFile(ok) ==
    /\ pc = "fileHit"
    /\ getMetaType(store, hitFile) # "DIR"
    /\ LET filePath == SavedFilePath(fileSetFolderPath, getName(store, hitFile), hitFile)
       IN  HitCall("copyFile", ok, filePath, hitFile,
                   SaveResult(ok, store, hitFile, filePath, report[setName]),
                   <<>>, {}, {[path |-> filePath, file |-> hitFile]})

saveInterestingFile == SaveInterestingFile(TRUE)
saveInterestingFileFailed == SaveInterestingFile(FALSE)

\* saveInterestingDirectory, up to the first file-system call made by
\* saveDirectoryContents; ok is whether createDirectory (line 152) returns.
SaveInterestingDirectory(ok) ==
    /\ pc = "fileHit"
    /\ getMetaType(store, hitFile) = "DIR"
    /\ LET path == SavedDirPath(fileSetFolderPath, getName(store, hitFile), hitFile)
           wrapper == WrapperDirPath(fileSetFolderPath, getName(store, hitFile), hitFile)
       IN  HitCall("createDirectory", ok, path, hitFile,
                   SaveResult(ok, store, hitFile, path, report[setName]),
                   Call(<<>>, path, hitFile), {wrapper, path}, {})

saveInterestingDirectory == SaveInterestingDirectory(TRUE)
saveInterestingDirectoryFailed == SaveInterestingDirectory(FALSE)

\* The activation of saveDirectoryContents that runs, and its current record.
top == stack[Len(stack)]
child == top.fileRecs[top.fileRec]
childPath == ChildPath(top.dirPath, getName(store, child))

\* saveDirectoryContents, lines 118-127: a subdirectory is created and
\* entered; nothing is added to the document.  The code has no limit on the
\* depth of the recursion: the model follows it MaxDepth activations deep.
SaveSubdirectory(ok) ==
    /\ pc = "contents"
    /\ getMetaType(store, child) = "DIR"
    /\ ok => Len(stack) < MaxDepth
    /\ HitCall("createDirectory", ok, childPath, child, report[setName],
               Call(stack, childPath, child), {childPath}, {})

saveSubdirectory == SaveSubdirectory(TRUE)
saveSubdirectoryFailed == SaveSubdirectory(FALSE)

\* saveDirectoryContents, lines 128-135: a file is copied.
SaveContainedFile(ok) ==
    /\ pc = "contents"
    /\ getMetaType(store, child) # "DIR"
    /\ HitCall("copyFile", ok, childPath, child,
               SaveResult(ok, store, child, childPath, report[setName]),
               Step(stack), {}, {[path |-> childPath, file |-> child]})

saveContainedFile == SaveContainedFile(TRUE)
saveContainedFileFailed == SaveContainedFile(FALSE)

\* saveFiles(), lines 229-235, and the step of report()'s loop after it.
writeReport ==
    /\ pc = "writeReport"
    /\ reports' = reports \cup {[path |-> ReportPath(outputFolderPath, setName),
                                 doc |-> report[setName]]}
    /\ fileSet' = fileSet + 1
    /\ pc' = NextSetPc(fileSet + 1, SetNames)
    /\ log' = Append(log, Event("writeReport", TRUE,
                                ReportPath(outputFolderPath, setName), 0, setName,
                                0, 0, Len(report[setName].entries),
                                Len(report[setName].entries)))
    /\ UNCHANGED <<lastArguments, outputFolderPath, blackboard,
                   store, returnCode, fileSets,
                   fileSetHits, fileHit, report, stack, dirs, files, failures>>

\* saveFiles(), line 231 throwing.
writeReportFailed ==
    /\ pc = "writeReport"
    /\ failures < MaxFailures
    /\ pc' = UncaughtInReport(returnCode).pc
    /\ returnCode' = UncaughtInReport(returnCode).returnCode
    /\ failures' = failures + 1
    /\ log' = Append(log, Event("writeReport", FALSE,
                                ReportPath(outputFolderPath, setName), 0, setName,
                                0, 0, Len(report[setName].entries),
                                Len(report[setName].entries)))
    /\ UNCHANGED <<lastArguments, outputFolderPath, blackboard,
                   store, fileSets, fileSetHits,
                   fileSet, fileHit, report, stack, dirs, files, reports>>

Next ==
    \/ initialize
    \/ reportCreated
    \/ reportCreateFailed
    \/ saveFilesCreated
    \/ saveFilesCreateFailed
    \/ saveInterestingFile
    \/ saveInterestingFileFailed
    \/ saveInterestingDirectory
    \/ saveInterestingDirectoryFailed
    \/ saveSubdirectory
    \/ saveSubdirectoryFailed
    \/ saveContainedFile
    \/ saveContainedFileFailed
    \/ writeReport
    \/ writeReportFailed

Spec == Init /\ [][Next]_vars

-----------------------------------------------------------------------------
(* What the claims speak of. *)

\* report() is over: it has returned its status or an exception has left it.
Finished == pc \in {"returned", "threw"}

\* The sets of the run and the positions of the hits of set s.  Set s comes
\* before set t in the loop of report() when StrLess(s, t).
Sets == DOMAIN fileSetHits
HitsOf(s) == 1..Len(fileSetHits[s])

Events == 1..Len(log)

\* The file-system calls made for hit p of set s.
HitEvents(s, p) == {j \in Events : log[j].set = s /\ log[j].pos = p}

Attempted(s, p) == \E j \in Events : log[j].set = s /\ log[j].pos = p
Failed(s, p) == \E j \in Events : log[j].set = s /\ log[j].pos = p /\ ~log[j].ok
Exported(s, p) == Attempted(s, p) /\ ~Failed(s, p)

\* The calls that create the output folder, create the folder of set s and
\* write the report of set s.
RootEvents == {j \in Events : log[j].op = "createDirectory" /\ log[j].set = <<>>}
FolderEvents(s) ==
    {j \in Events : log[j].op = "createDirectory" /\ log[j].set = s /\ log[j].pos = 0}
WriteEvents(s) == {j \in Events : log[j].op = "writeReport" /\ log[j].set = s}

FolderCreated(s) == \E j \in FolderEvents(s) : log[j].ok
SomeFolderFailed == \E j \in Events : ~log[j].ok /\ log[j].op = "createDirectory"
                                       /\ log[j].pos = 0 /\ log[j].set # <<>>
SomeWriteFailed == \E j \in Events : ~log[j].ok /\ log[j].op = "writeReport"

\* The positions, in the document of set s, of the elements added by the
\* calls made for hit p.
ElementsOf(s, p) == UNION {(log[j].n0 + 1)..log[j].n : j \in HitEvents(s, p)}

\* The report files of set s on disk.
Written(s) == {r \in reports : r.path = ReportPath(outputFolderPath, s)}

-----------------------------------------------------------------------------
(* C1 *)

\* C1 as stated: when report() is over, a failed hit has made the outcome
\* FAIL, and every later hit of its set and every hit of every later set has
\* been attempted.
C1_Original ==
    Finished =>
        \A s \in Sets : \A p \in HitsOf(s) :
            Failed(s, p) =>
                /\ returnCode = "FAIL"
                /\ \A q \in HitsOf(s) : q > p => Attempted(s, q)
                /\ \A t \in Sets : \A q \in HitsOf(t) :
                      StrLess(s, t) => Attempted(t, q)

\* C1 amended: when report() is over, a failed hit has made the outcome FAIL
\* and every later hit of its set has been attempted; every hit of every later
\* set has been attempted too, unless creating a set folder or writing a
\* report failed (which ends the run).
C1_HitFailureIsolated ==
    Finished =>
        \A s \in Sets : \A p \in HitsOf(s) :
            Failed(s, p) =>
                /\ returnCode = "FAIL"
                /\ \A q \in HitsOf(s) : q > p => Attempted(s, q)
                /\ \/ SomeFolderFailed
                   \/ SomeWriteFailed
                   \/ \A t \in Sets : \A q \in HitsOf(t) :
                         StrLess(s, t) => Attempted(t, q)

\* A hit fails inside its directory, a later hit of the same set and a hit of
\* a later set are exported, and report() returns.
C1_Witness ==
    /\ pc = "returned"
    /\ \E s \in Sets : \E p \in HitsOf(s) : \E q \in HitsOf(s) :
          /\ q > p
          /\ \E j \in HitEvents(s, p) :
                ~log[j].ok /\ log[j].file # fileSetHits[s][p].objectID
          /\ Exported(s, q)
          /\ \E t \in Sets : StrLess(s, t) /\ \E r \in HitsOf(t) : Exported(t, r)

-----------------------------------------------------------------------------
(* C2 *)

\* report() went on to set s: it tried to create its folder, and if that
\* worked it attempted every hit and tried to write the report.
SetProcessed(s) ==
    /\ FolderEvents(s) # {}
    /\ FolderCreated(s) =>
          /\ \A q \in HitsOf(s) : Attempted(s, q)
          /\ WriteEvents(s) # {}

\* C2 as stated: when report() is over and the folder of a set could not be
\* created, the outcome is FAIL, no hit of that set was attempted, and
\* report() went on to every later set, unless writing a report failed.
C2_FolderFailureSkipsOneSet ==
    Finished =>
        \A s \in Sets :
            (\E j \in FolderEvents(s) : ~log[j].ok) =>
                /\ returnCode = "FAIL"
                /\ \A q \in HitsOf(s) : ~Attempted(s, q)
                /\ SomeWriteFailed \/ \A t \in Sets : StrLess(s, t) => SetProcessed(t)

-----------------------------------------------------------------------------
(* C3 *)

\* The path under which hit p of set s is saved.
HitPath(s, p) ==
    LET f == fileSetHits[s][p].objectID
    IN  IF getMetaType(store, f) = "DIR"
        THEN SavedDirPath(FileSetFolderPath(outputFolderPath, s), getName(store, f), f)
        ELSE SavedFilePath(FileSetFolderPath(outputFolderPath, s), getName(store, f), f)

\* C3: when report() is over, the document of every set whose hits were
\* processed has, for every hit that was exported, an element of that hit
\* with the path the hit was saved under, also when an earlier hit of the
\* set failed; a file hit whose copy failed has no element; and the report
\* file that was written is this document.
C3_ManifestHasExportedHits ==
    Finished =>
        \A s \in Sets :
            FolderCreated(s) =>
                /\ \A p \in HitsOf(s) :
                      /\ Attempted(s, p)
                      /\ Exported(s, p) =>
                            \E i \in ElementsOf(s, p) :
                                report[s].entries[i].Path = HitPath(s, p)
                      /\ (Failed(s, p)
                            /\ getMetaType(store, fileSetHits[s][p].objectID) # "DIR")
                         => ElementsOf(s, p) = {}
                /\ \A r \in Written(s) : r.doc = report[s]

\* Three hits in one set, the copy of the second fails: the written report
\* has the elements of the first and the third only.
C3_Witness ==
    /\ pc = "returned"
    /\ returnCode = "FAIL"
    /\ \E s \in Sets :
          /\ Len(fileSetHits[s]) = 3
          /\ Exported(s, 1) /\ Exported(s, 3)
          /\ Failed(s, 2)
          /\ \E r \in Written(s) : Len(r.doc.entries) = 2

-----------------------------------------------------------------------------
(* C4 *)

NoFailure == \A j \in Events : log[j].ok
HitOrDirectoryFailure ==
    \E j \in Events : ~log[j].ok /\ log[j].op \in {"createDirectory", "copyFile"}

\* Every hit of every set of the blackboard was exported without error.
AllHitsExported ==
    LET g == Group(blackboard)
    IN  \A s \in DOMAIN g.hits : \A p \in 1..Len(g.hits[s]) : Exported(s, p)

-----------------------------------------------------------------------------
(* C5 *)

\* C5: when creating the output folder has failed, report() has returned
\* FAIL and nothing else was done: no artifact was grouped, no directory
\* created, no file copied, no report begun or written.
C5_RootFailureAborts ==
    (\E j \in RootEvents : ~log[j].ok) =>
        /\ pc = "returned"
        /\ returnCode = "FAIL"
        /\ DOMAIN fileSets = {} /\ DOMAIN fileSetHits = {}
        /\ dirs = {} /\ files = {} /\ reports = {}
        /\ DOMAIN report = {}
        /\ Len(log) = 1

\* Creating the output folder fails with hits of two sets on the blackboard.
C5_Witness ==
    /\ \E j \in RootEvents : ~log[j].ok
    /\ Cardinality(DOMAIN Group(blackboard).sets) = 2
    /\ pc = "returned"

-----------------------------------------------------------------------------
(* C6 *)

AllHitsFailed(s) == \A p \in HitsOf(s) : Failed(s, p)

\* The report of set s is written once, after its last hit and before
\* anything is done for a later set, with the set's name and description.
WrittenOnceInOrder(s) ==
    /\ Cardinality(WriteEvents(s)) <= 1
    /\ (Finished /\ FolderCreated(s)) => Cardinality(WriteEvents(s)) = 1
    /\ \A w \in WriteEvents(s) :
          /\ \A p \in HitsOf(s) :
                Attempted(s, p) /\ \A j \in HitEvents(s, p) : j < w
          /\ \A j \in Events : (log[j].set # <<>> /\ StrLess(s, log[j].set)) => j > w
    /\ \A r \in Written(s) :
          r.doc.name = s /\ r.doc.description = Group(blackboard).sets[s]

\* C6 as stated: the report of every set whose folder was created is written
\* (the write is made) exactly once, after the last hit of the set and before
\* any hit of the next set, and the written report of a set all of whose hits
\* failed has the set's name and description and no element.
C6_Original ==
    \A s \in Sets :
        /\ WrittenOnceInOrder(s)
        /\ AllHitsFailed(s) => \A r \in Written(s) : r.doc.entries = <<>>

\* C6 amended: as above, but the written report of a set all of whose hits
\* failed has the elements that its directory hits added before they failed
\* (the directory itself and the files copied), and no element when every
\* hit failed in its first call.
C6_ManifestWrittenOncePerSet ==
    \A s \in Sets :
        /\ WrittenOnceInOrder(s)
        /\ AllHitsFailed(s) =>
              \A r \in Written(s) :
                  /\ \A i \in 1..Len(r.doc.entries) :
                        \E p \in HitsOf(s) :
                            /\ i \in ElementsOf(s, p)
                            /\ getMetaType(store, fileSetHits[s][p].objectID) = "DIR"
                  /\ (\A p \in HitsOf(s) : \A j \in HitEvents(s, p) : ~log[j].ok)
                        => r.doc.entries = <<>>

\* A set of two hits or more, all failed, one in its first call and one, a
\* directory, after it was created: the written report has elements.
C6_Witness ==
    /\ Finished
    /\ \E s \in Sets :
          /\ Len(fileSetHits[s]) >= 2
          /\ AllHitsFailed(s)
          /\ \E p \in HitsOf(s) : \A j \in HitEvents(s, p) : ~log[j].ok
          /\ \E r \in Written(s) : Len(r.doc.entries) >= 1

-----------------------------------------------------------------------------
(* C7 *)

\* C7 as stated: when report() is over and writing a report has failed, no
\* later set was exported and report() has returned FAIL.
C7_WriteFailureReturnsFail ==
    (Finished /\ SomeWriteFailed) =>
        /\ \A s \in Sets : \A t \in Sets :
              ((\E w \in WriteEvents(s) : ~log[w].ok) /\ StrLess(s, t))
                 => \A j \in Events : log[j].set # t
        /\ pc = "returned"
        /\ returnCode = "FAIL"

-----------------------------------------------------------------------------
(* C8 *)

HasSetName(i) ==
    \E k \in 1..Len(blackboard[i].attrs) : blackboard[i].attrs[k].type = "TSK_SET_NAME"

\* The set names artifact i carries.
SetNamesOf(i) ==
    {blackboard[i].attrs[k].value :
        k \in {x \in 1..Len(blackboard[i].attrs) :
                  blackboard[i].attrs[x].type = "TSK_SET_NAME"}}

\* C8: once report() has grouped the artifacts, an artifact without a set
\* name is in no group and no call is ever made for it; every artifact with a
\* set name, before or after it, is in the group of each of its names; set
\* folders are made and elements added for hits of grouped artifacts only;
\* and a run in which nothing fails returns OK.
C8_MalformedHitSkipped ==
    (\E j \in RootEvents : log[j].ok) =>
        /\ \A i \in 1..Len(blackboard) :
              IF HasSetName(i)
              THEN \A s \in SetNamesOf(i) :
                      /\ s \in DOMAIN fileSets /\ s \in DOMAIN fileSetHits
                      /\ \E p \in 1..Len(fileSetHits[s]) : fileSetHits[s][p].artifactID = i
              ELSE /\ \A s \in DOMAIN fileSetHits : \A p \in 1..Len(fileSetHits[s]) :
                         fileSetHits[s][p].artifactID # i
                   /\ \A j \in Events : log[j].art # i
        /\ \A j \in Events :
              log[j].set # <<>> =>
                  \E i \in 1..Len(blackboard) : HasSetName(i) /\ log[j].set \in SetNamesOf(i)
        /\ \A s \in DOMAIN report : \A e \in 1..Len(report[s].entries) :
              \E p \in 1..Len(fileSetHits[s]) :
                  e \in ElementsOf(s, p) /\ HasSetName(fileSetHits[s][p].artifactID)
        /\ (Finished /\ NoFailure) => (pc = "returned" /\ returnCode = "OK")

\* The first artifact has no set name, the second has: the second is
\* exported and report() returns OK.
C8_Witness ==
    /\ pc = "returned"
    /\ returnCode = "OK"
    /\ Len(blackboard) = 2
    /\ ~HasSetName(1)
    /\ HasSetName(2)
    /\ \E j \in Events : log[j].art = 2 /\ log[j].ok
    /\ reports # {}

-----------------------------------------------------------------------------
(* C9 *)

\* C9 as stated: every file copied and every directory created for a hit
\* (the directory of the hit and every directory below it) has an element
\* with its saved path in the document of the set.
C9_EveryExportedItemRecorded ==
    \A j \in Events :
        (log[j].ok /\ log[j].pos # 0) =>
            \E i \in 1..Len(report[log[j].set].entries) :
                report[log[j].set].entries[i].Path = log[j].path

-----------------------------------------------------------------------------
(* C10 *)

\* C10: every element of every document was added by a call that returned:
\* a SavedFile element by a copyFile whose destination is the element's Path,
\* a SavedDirectory element by a createDirectory of the element's Path; the
\* copy or the directory is on disk, and OriginalPath is the unique path of
\* the file of that call.
C10_EntriesTruthful ==
    \A s \in DOMAIN report : \A i \in 1..Len(report[s].entries) :
        LET e == report[s].entries[i]
        IN  \E j \in Events :
                /\ log[j].ok
                /\ log[j].set = s
                /\ log[j].n0 = i - 1 /\ log[j].n = i
                /\ log[j].path = e.Path
                /\ e.OriginalPath = getUniquePath(store, log[j].file)
                /\ IF e.tag = "SavedFile"
                   THEN /\ log[j].op = "copyFile"
                        /\ [path |-> e.Path, file |-> log[j].file] \in files
                        /\ getMetaType(store, log[j].file) # "DIR"
                   ELSE /\ e.tag = "SavedDirectory"
                        /\ log[j].op = "createDirectory"
                        /\ e.Path \in dirs
                        /\ getMetaType(store, log[j].file) = "DIR"

\* A written report with the element of a directory hit and the element of a
\* file copied two levels below it.
C10_Witness ==
    \E r \in reports :
        /\ Len(r.doc.entries) >= 2
        /\ r.doc.entries[1].tag = "SavedDirectory"
        /\ r.doc.entries[2].tag = "SavedFile"
        /\ Len(r.doc.entries[2].Path) > Len(r.doc.entries[1].Path) + 4

-----------------------------------------------------------------------------
(* The same module run on files and sets of other names. *)

\* The names of file 1 and of file 2.
HitNames1 == {<<"a">>, <<".", "a">>, <<"a", ".", "t">>, <<"a", ".", "b", ".", "t">>,
              <<"a", ".">>, <<".", "a", ".", "t">>, <<"a", ".", "x", "m", "l">>,
              <<"a", "_", "2", ".">>}
HitNames2 == {<<"a">>, <<"a", ".", "t">>, <<"a", ".", "_", "1">>}

NameStores ==
    [kind : {k \in [FileIds -> {"DIR", "REG"}] :
                \A id \in FileIds \ HitFileIds : k[id] = "REG"},
     name : {[id \in FileIds |-> IF id = 1 THEN n1 ELSE IF id = 2 THEN n2
                                 ELSE FileNames[id]] :
                n1 \in HitNames1, n2 \in HitNames2},
     parent : [FileIds -> {0} \cup FileIds]]

\* The set names: one of them ends like a file name with its id put in.
SetA1 == <<"a", "_", "1">>
NameSets == {SetA, SetA1}

\* The hits are all of one set.
NameBlackboards ==
    {[i \in 1..n |-> [objectID |-> ((i - 1) % Cardinality(HitFileIds)) + 1,
                      attrs |-> <<[type |-> "TSK_SET_NAME", value |-> s,
                                   context |-> <<>>]>>]] :
        n \in 1..MaxHits, s \in NameSets}

NameInit ==
    /\ lastArguments = NoArguments
    /\ outputFolderPath = <<>>
    /\ blackboard \in NameBlackboards
    /\ store \in {s \in NameStores : IsForest(s) /\ Relevant(s, blackboard)}
    /\ pc = "loaded"
    /\ returnCode = "OK"
    /\ fileSets = EmptyMap
    /\ fileSetHits = EmptyMap
    /\ fileSet = 0
    /\ fileHit = 0
    /\ report = EmptyMap
    /\ stack = <<>>
    /\ dirs = {}
    /\ files = {}
    /\ reports = {}
    /\ log = <<>>
    /\ failures = 0

NameSpec == NameInit /\ [][Next]_vars

\* The calls made for the file or directory of a hit itself, not for what is
\* below it.
TopEvents == {j \in Events : log[j].pos # 0
                 /\ log[j].file = fileSetHits[log[j].set][log[j].pos].objectID}

\* The last part of a path.
RECURSIVE LastPart(_)
LastPart(path) ==
    IF path = <<>> \/ path[Len(path)] = Sep[1] THEN <<>>
    ELSE LastPart(SubSeq(path, 1, Len(path) - 1)) \o <<path[Len(path)]>>

\* The path without its last part and the separator before it.
ParentPath(path) == SubSeq(path, 1, Len(path) - Len(LastPart(path)) - 1)

-----------------------------------------------------------------------------
(* C11 *)

\* saved is name with the suffix put immediately before its last '.', when
\* there is a '.' that is not the first character, and at the end otherwise.
IsNameWithId(saved, name, suffix) ==
    IF \E i \in 2..Len(name) : name[i] = "."
    THEN \E i \in 2..Len(name) :
            /\ name[i] = "."
            /\ \A k \in (i + 1)..Len(name) : name[k] # "."
            /\ saved = SubSeq(name, 1, i - 1) \o suffix \o SubSeq(name, i, Len(name))
    ELSE saved = name \o suffix

\* C11: every copy made for a file hit is made to <set folder>/<saved name>,
\* where the saved name is the file's name with "_<id>" immediately before
\* its last '.', or at the end when the name has no '.' or its last '.' is
\* its first character; report.txt with id 5 gives report_5.txt and .bashrc
\* with id 3 gives .bashrc_3.
C11_TopLevelFileNaming ==
    /\ \A j \in TopEvents :
          log[j].op = "copyFile" =>
              /\ ParentPath(log[j].path) = FileSetFolderPath(outputFolderPath, log[j].set)
              /\ IsNameWithId(LastPart(log[j].path), getName(store, log[j].file),
                              <<"_">> \o Digits(log[j].file))
              /\ log[j].ok => [path |-> log[j].path, file |-> log[j].file] \in files
    /\ SavedFileName(<<"r", "e", "p", "o", "r", "t", ".", "t", "x", "t">>, 5)
          = <<"r", "e", "p", "o", "r", "t", "_", "5", ".", "t", "x", "t">>
    /\ SavedFileName(<<".", "b", "a", "s", "h", "r", "c">>, 3)
          = <<".", "b", "a", "s", "h", "r", "c", "_", "3">>

\* Two file hits are copied: the name of one has its only '.' first, the
\* name of the other has a '.' further on.
C11_Witness ==
    \E j \in TopEvents : \E k \in TopEvents :
        /\ log[j].op = "copyFile" /\ log[j].ok
        /\ log[k].op = "copyFile" /\ log[k].ok
        /\ getName(store, log[j].file) = <<".", "a">>
        /\ getName(store, log[k].file) = <<"a", ".", "t">>

-----------------------------------------------------------------------------
(* C12 *)

\* The calls made for what is below the directory of a hit.
NestedEvents == {j \in Events : log[j].pos # 0 /\ j \notin TopEvents}

\* C12: the directory of a directory hit, named N with id I, is created at
\* <set folder>/N_I/N, wrapper included; every subdirectory and every file
\* below it, at any depth, is created or copied at <saved path of its parent
\* directory>/<its own name>, with nothing added to the name.
C12_DirectoryNaming ==
    /\ \A j \in TopEvents :
          log[j].op = "createDirectory" =>
              LET S == outputFolderPath \o <<"/">> \o log[j].set
                  N == getName(store, log[j].file)
                  I == Digits(log[j].file)
              IN  /\ log[j].path = S \o <<"/">> \o N \o <<"_">> \o I \o <<"/">> \o N
                  /\ log[j].ok => /\ log[j].path \in dirs
                                  /\ S \o <<"/">> \o N \o <<"_">> \o I \in dirs
    /\ \A j \in NestedEvents :
          \E k \in 1..(j - 1) :
              /\ log[k].ok
              /\ log[k].op = "createDirectory"
              /\ log[k].set = log[j].set /\ log[k].pos = log[j].pos
              /\ log[k].file = store.parent[log[j].file]
              /\ log[j].path = log[k].path \o <<"/">> \o getName(store, log[j].file)
              /\ log[j].ok =>
                    IF log[j].op = "createDirectory" THEN log[j].path \in dirs
                    ELSE [path |-> log[j].path, file |-> log[j].file] \in files

\* A directory hit whose name has a '.', with a subdirectory in it and a file
\* in the subdirectory, all saved.
C12_Witness ==
    \E j \in TopEvents : \E k \in NestedEvents : \E m \in NestedEvents :
        /\ log[j].ok /\ log[k].ok /\ log[m].ok
        /\ log[j].op = "createDirectory"
        /\ \E i \in 1..Len(getName(store, log[j].file)) :
              getName(store, log[j].file)[i] = "."
        /\ log[k].op = "createDirectory"
        /\ store.parent[log[k].file] = log[j].file
        /\ log[m].op = "copyFile"
        /\ store.parent[log[m].file] = log[k].file

-----------------------------------------------------------------------------
(* C13 *)

\* The name, in the set folder, under which the hit of top-level call j is
\* saved: the saved file name, or the name of the wrapper directory.
TopName(j) ==
    IF log[j].op = "copyFile" THEN LastPart(log[j].path)
    ELSE LastPart(ParentPath(log[j].path))

\* C13 as stated: two hits of one set that refer to files of different ids
\* are saved under different names in the set folder, whatever their names
\* and kinds.
C13_TopLevelNamesDistinct ==
    \A j \in TopEvents : \A k \in TopEvents :
        (log[j].set = log[k].set /\ log[j].file # log[k].file)
            => TopName(j) # TopName(k)

-----------------------------------------------------------------------------
(* C14 *)

\* The directories on disk directly under the output folder.
SetSubfolders == {d \in dirs : d # outputFolderPath /\ ParentPath(d) = outputFolderPath}

\* The set names carried by the artifacts of the blackboard.
ValidSetNames == UNION {SetNamesOf(i) : i \in 1..Len(blackboard)}

NoDirectoryFailure == \A j \in Events : log[j].op = "createDirectory" => log[j].ok

\* C14 as stated: when report() is over and no directory creation has
\* failed, there are as many subfolders of the output folder as set names
\* carried by the artifacts.
C14_Original ==
    (Finished /\ NoDirectoryFailure) =>
        Cardinality(SetSubfolders) = Cardinality(ValidSetNames)

\* The set names up to and including the first one whose report could not be
\* written; all of them when every report was written.
SetNamesReached ==
    {s \in ValidSetNames :
        \A j \in Events :
            (log[j].op = "writeReport" /\ ~log[j].ok) => ~StrLess(log[j].set, s)}

\* C14 amended: when report() is over and no directory creation has failed,
\* the subfolders of the output folder are the folders of the set names
\* carried by the artifacts, up to and including the first set whose report
\* could not be written: as many subfolders as such names.
C14_SubfolderPerSetReached ==
    (Finished /\ NoDirectoryFailure) =>
        /\ SetSubfolders = {outputFolderPath \o <<"/">> \o s : s \in SetNamesReached}
        /\ Cardinality(SetSubfolders) = Cardinality(SetNamesReached)

\* Two artifacts, one without a set name and one with two: two subfolders,
\* also though a copy has failed.
C14_Witness ==
    /\ pc = "returned"
    /\ NoDirectoryFailure
    /\ \E j \in Events : ~log[j].ok
    /\ \E i \in 1..Len(blackboard) : ~HasSetName(i)
    /\ Cardinality(SetSubfolders) = 2

-----------------------------------------------------------------------------
(* C15 *)

\* C15: once initialize() has been called, however often, the output folder
\* is the argument of the last call when that is a non-empty string, and
\* <output directory>/InterestingFiles otherwise (null or empty argument); it
\* is not empty, and it is the folder report() creates.
C15_OutputRootFromLastInitialize ==
    pc # "loaded" =>
        /\ outputFolderPath =
              IF ~lastArguments.null /\ lastArguments.str # <<>>
              THEN lastArguments.str
              ELSE OutDir \o <<"/", "InterestingFiles">>
        /\ outputFolderPath # <<>>
        /\ \A j \in RootEvents : log[j].path = outputFolderPath

\* report() has created the default folder after an initialize() call
\* without argument.
C15_Witness ==
    /\ lastArguments.null
    /\ \E j \in RootEvents : log[j].ok /\ log[j].path = OutDir \o <<"/", "InterestingFiles">>
    /\ outputFolderPath \in dirs

-----------------------------------------------------------------------------
(* C16 *)

\* C16: the calls made for the sets come in ascending order of set name; in
\* a set, the hits are in the order of their artifacts on the blackboard and
\* the calls made for them come in that order; and the elements of a set's
\* document are in the order of the calls that added them.
C16_ProcessingOrder ==
    /\ \A j \in Events : \A k \in Events :
          (j < k /\ log[j].set # <<>>) =>
              /\ log[k].set # <<>>
              /\ log[j].set = log[k].set \/ StrLess(log[j].set, log[k].set)
              /\ (log[j].set = log[k].set /\ log[k].pos # 0) =>
                    /\ log[j].pos <= log[k].pos
                    /\ log[j].art <= log[k].art
              /\ log[j].set = log[k].set =>
                    /\ log[j].n <= log[k].n0
                    /\ \A i \in (log[j].n0 + 1)..log[j].n :
                          /\ i <= Len(report[log[j].set].entries)
                          /\ report[log[j].set].entries[i].Path = log[j].path
    /\ \A s \in Sets : \A p \in HitsOf(s) : \A q \in HitsOf(s) :
          p < q => fileSetHits[s][p].artifactID <= fileSetHits[s][q].artifactID

\* Two sets; the first has been through two hits of different artifacts and
\* has two elements or more, then the second set was entered.
C16_Witness ==
    /\ Cardinality(Sets) = 2
    /\ \E j \in Events : \E k \in Events : \E m \in Events :
          /\ j < k /\ k < m
          /\ log[j].ok /\ log[k].ok /\ log[m].ok
          /\ log[j].set = log[k].set
          /\ log[j].art # 0 /\ log[k].art # 0 /\ log[j].art # log[k].art
          /\ Len(report[log[j].set].entries) >= 2
          /\ StrLess(log[k].set, log[m].set)
          /\ log[m].pos # 0

-----------------------------------------------------------------------------
(* C17 *)

\* C17: a call that fails below the directory of a hit is the last call made
\* for that hit, and the hits after it are still attempted; what the calls
\* before it did stays: the directories created and the files copied are on
\* disk, and the elements they added are in the set's document, and in the
\* report file when it is written.
C17_DirectoryFailureKeepsOutput ==
    \A f \in NestedEvents :
        ~log[f].ok =>
            /\ \A j \in Events :
                  (log[j].set = log[f].set /\ log[j].pos = log[f].pos) => j <= f
            /\ Finished => \A q \in HitsOf(log[f].set) :
                              q > log[f].pos => Attempted(log[f].set, q)
            /\ \A j \in HitEvents(log[f].set, log[f].pos) :
                  (j < f) =>
                      /\ log[j].ok
                      /\ IF log[j].op = "copyFile"
                         THEN [path |-> log[j].path, file |-> log[j].file] \in files
                         ELSE log[j].path \in dirs
                      /\ \A i \in (log[j].n0 + 1)..log[j].n :
                            /\ i <= Len(report[log[j].set].entries)
                            /\ report[log[j].set].entries[i].Path = log[j].path
                            /\ \A r \in Written(log[j].set) :
                                  /\ i <= Len(r.doc.entries)
                                  /\ r.doc.entries[i].Path = log[j].path

\* In the directory of a hit a file is copied, the copy of the next file
\* fails, and the report of the set is written with the elements of the
\* directory and of the first file.
C17_Witness ==
    \E f \in NestedEvents : \E j \in NestedEvents :
        /\ ~log[f].ok
        /\ j < f
        /\ log[j].set = log[f].set /\ log[j].pos = log[f].pos
        /\ log[j].op = "copyFile"
        /\ \E r \in Written(log[f].set) : Len(r.doc.entries) >= 2

-----------------------------------------------------------------------------
(* The same module run on a corrupt image database. *)

\* The parent relation has a cycle: some file is above itself.
CycleInit ==
    /\ lastArguments = NoArguments
    /\ outputFolderPath = <<>>
    /\ blackboard \in Blackboards
    /\ store \in {s \in FileStores : ~IsForest(s) /\ Relevant(s, blackboard)}
    /\ pc = "loaded"
    /\ returnCode = "OK"
    /\ fileSets = EmptyMap
    /\ fileSetHits = EmptyMap
    /\ fileSet = 0
    /\ fileHit = 0
    /\ report = EmptyMap
    /\ stack = <<>>
    /\ dirs = {}
    /\ files = {}
    /\ reports = {}
    /\ log = <<>>
    /\ failures = 0

CycleSpec == CycleInit /\ [][Next]_vars

-----------------------------------------------------------------------------
(* C18 *)

\* No directory is on the stack of saveDirectoryContents twice.
NoDirectoryTwice ==
    \A a \in 1..Len(stack) : \A b \in 1..Len(stack) :
        a # b => stack[a].dir # stack[b].dir

\* C18 as stated: in the export of a hit, on any image database, the
\* recursion never enters a directory it is already in, or it stops at a
\* depth of its own (before the depth at which the model stops following it).
C18_ExportTerminates == NoDirectoryTwice \/ Len(stack) < MaxDepth

-----------------------------------------------------------------------------
(* C19 *)

\* C19 as stated: the file or directory of an artifact is saved at most once
\* in a run, whatever the number of set names the artifact carries, and when
\* report() has returned and no directory creation has failed there are as
\* many such saves as artifacts with a set name.
C19_EachHitExportedOnce ==
    /\ \A j \in TopEvents : \A k \in TopEvents :
          log[j].art = log[k].art => j = k
    /\ (pc = "returned" /\ NoDirectoryFailure) =>
          Cardinality(TopEvents)
             = Cardinality({i \in 1..Len(blackboard) : HasSetName(i)})

-----------------------------------------------------------------------------
(* C20 *)

\* C20 as stated: the report of a set is never written to the path of a file
\* copied or a directory created for a hit of that set.
C20_ManifestKeepsExportedContent ==
    \A w \in Events : \A j \in Events :
        (/\ log[w].op = "writeReport" /\ log[w].ok
         /\ log[j].pos # 0 /\ log[j].ok
         /\ log[j].set = log[w].set)
            => log[j].path # log[w].path

====
